---- MODULE Spec2Model ----
(***************************************************************************)
(* A model of watermark.py: the watermark sizing arithmetic                *)
(* (calc_watermark_size, computed in IEEE-754 double precision with        *)
(* Python's round-half-to-even), the pixel-level compositor                *)
(* (apply_watermark) and the file-system effects of main over successive   *)
(* runs of the tool.                                                       *)
(***************************************************************************)
EXTENDS Integers, Naturals, Sequences, FiniteSets, TLC

VARIABLES
    \* --- sizing and compositing developments ---
    phase,          \* which step of prepare_watermark / apply_watermark was taken
    orig_w,         \* logo.size[0] read by prepare_watermark
    orig_h,         \* logo.size[1] read by prepare_watermark
    sized,          \* what calc_watermark_size returned
    wm_size,        \* size of the raster returned by prepare_watermark
    page_img,       \* the page raster opened by apply_watermark
    wm_img,         \* the watermark raster given to apply_watermark
    out_img,        \* the raster apply_watermark returns
    \* --- runs of main ---
    pc,             \* position of the current run in main
    args,           \* parse_args(): logo, quality, output
    src,            \* number of pages of the PDF at PDF_INPUT
    tmp_exists,     \* whether the directory TMP_DIR exists
    staging,        \* the files in TMP_DIR: name -> content
    outside,        \* the PDF files written outside TMP_DIR: name -> content
    pages,          \* main's list pages
    watermark,      \* main's watermark
    result_images,  \* main's list result_images
    built,          \* the PDF build_pdf wrote in this run
    exit_code,      \* exit status of the run, -1 while it runs
    failed_at,      \* the function in which the run ended abnormally
    rerun,          \* the run repeats the previous, successful run's inputs
    prev_built      \* the PDF the previous run wrote, when rerun

sizeVars  == <<orig_w, orig_h, sized, wm_size>>
pasteVars == <<page_img, wm_img, out_img>>
mainVars  == <<pc, args, src, tmp_exists, staging, outside, pages, watermark,
               result_images, built, exit_code, failed_at, rerun, prev_built>>
vars == <<phase, sizeVars, pasteVars, mainVars>>

(***************************************************************************)
(* Program constants.                                                      *)
(***************************************************************************)
WM_MAX_W == 120
WM_MIN_W == 107
WM_MIN_H == 21
WM_MARGIN == 0
TMP_DIR == "tmp_pages"

(***************************************************************************)
(* Bounds of the model.                                                    *)
(***************************************************************************)
MaxLogoW == 96
MaxLogoH == 30
MaxPageDim == 3
MaxWmDim == 3
MaxSeed == 1
MaxPages == 2

(***************************************************************************)
(* Double-precision arithmetic.  A positive double is [m, e] standing for  *)
(* m * 2^e with 2^52 <= m < 2^53.  The 53-bit significand does not fit a   *)
(* 32-bit integer, so it is kept in three limbs of 20 bits, least           *)
(* significant first.                                                      *)
(***************************************************************************)
LimbBase == 2^20
TopLimb53 == 2^13      \* m < 2^53  iff  m[3] < 2^13

Big(n) == <<n % LimbBase, n \div LimbBase, 0>>

BigToInt(a) == a[1] + LimbBase * a[2]

BigIsZero(a) == a[1] = 0 /\ a[2] = 0 /\ a[3] = 0

BigOdd(a) == a[1] % 2 = 1

BigGeq(a, b) ==
    \/ a[3] > b[3]
    \/ a[3] = b[3] /\ a[2] > b[2]
    \/ a[3] = b[3] /\ a[2] = b[2] /\ a[1] >= b[1]

BigSub(a, b) ==
    LET d1 == a[1] - b[1]
        c1 == IF d1 < 0 THEN 1 ELSE 0
        d2 == a[2] - b[2] - c1
        c2 == IF d2 < 0 THEN 1 ELSE 0
    IN  <<d1 + c1 * LimbBase, d2 + c2 * LimbBase, a[3] - b[3] - c2>>

BigMulSmall(a, c) ==
    LET p1 == a[1] * c
        p2 == a[2] * c + (p1 \div LimbBase)
        p3 == a[3] * c + (p2 \div LimbBase)
    IN  <<p1 % LimbBase, p2 % LimbBase, p3>>

BigDbl(a) == BigMulSmall(a, 2)

BigInc(a) ==
    IF a[1] + 1 < LimbBase THEN <<a[1] + 1, a[2], a[3]>>
    ELSE IF a[2] + 1 < LimbBase THEN <<0, a[2] + 1, a[3]>>
    ELSE <<0, 0, a[3] + 1>>

\* Number of bits of 0 <= n < 2^31.
BitLen(n) == IF n = 0 THEN 0 ELSE CHOOSE k \in 1..31 : n \div 2^(k - 1) = 1

BigBitLen(a) ==
    IF a[3] > 0 THEN 40 + BitLen(a[3])
    ELSE IF a[2] > 0 THEN 20 + BitLen(a[2])
    ELSE BitLen(a[1])

\* a * 2^k, for a result below 2^60.
BigShl(a, k) ==
    LET b     == k % 20
        hi(x) == x \div 2^(20 - b)
        lo(x) == (x % 2^(20 - b)) * 2^b
        x     == <<lo(a[1]), lo(a[2]) + hi(a[1]), a[3] * 2^b + hi(a[2])>>
    IN  CASE k \div 20 = 0 -> x
          [] k \div 20 = 1 -> <<0, x[1], x[2]>>
          [] OTHER         -> <<0, 0, x[1]>>

\* floor(a / 2^k).
BigShr(a, k) ==
    LET b == k % 20
        x == CASE k \div 20 = 0 -> a
               [] k \div 20 = 1 -> <<a[2], a[3], 0>>
               [] k \div 20 = 2 -> <<a[3], 0, 0>>
               [] OTHER         -> <<0, 0, 0>>
    IN  << (x[1] \div 2^b) + (x[2] % 2^b) * 2^(20 - b),
           (x[2] \div 2^b) + (x[3] % 2^b) * 2^(20 - b),
           x[3] \div 2^b >>

\* Bit i of a, and whether the k lowest bits of a are all zero.
BigBit(a, i) == BigOdd(BigShr(a, i))

BigLowZero(a, k) ==
    IF k >= 60 THEN BigIsZero(a) ELSE a = BigShl(BigShr(a, k), k)

\* A significand that reached 2^53 by rounding up is 2^52 with the exponent
\* one higher.
Renorm(m, e) ==
    IF m[3] < TopLimb53 THEN [m |-> m, e |-> e]
    ELSE [m |-> BigShr(m, 1), e |-> e + 1]

\* Round to nearest, ties to even: t is the kept part, g the first bit
\* dropped, st whether anything below that bit was set.
Rounded(t, e, g, st) ==
    Renorm(IF g /\ (st \/ BigOdd(t)) THEN BigInc(t) ELSE t, e)

RoundAt(q, e, sticky, s) ==
    Rounded(BigShr(q, s), e + s,
            s > 0 /\ BigBit(q, s - 1),
            sticky \/ (s > 0 /\ ~BigLowZero(q, s - 1)))

\* The double nearest to q * 2^e (plus a non-zero tail below q when sticky):
\* IEEE-754 round-to-nearest-even.  q has 53 to 60 bits, and more than 53
\* when sticky.
RoundToDouble(q, e, sticky) == RoundAt(q, e, sticky, BigBitLen(q) - 53)

\* Scale n / d by a power of two so that d <= n < 2d:  n/d = (z.n/z.d) * 2^z.k.
NormN(n1, d, k) ==
    IF BigGeq(n1, d) THEN [n |-> n1, d |-> d, k |-> k]
    ELSE [n |-> BigDbl(n1), d |-> d, k |-> k - 1]

NormD(n, d1, k) ==
    IF BigGeq(n, d1) THEN [n |-> n, d |-> d1, k |-> k]
    ELSE [n |-> n, d |-> BigShr(d1, 1), k |-> k - 1]

NormalizeBy(n, d, j) ==
    IF j >= 0 THEN NormN(BigShl(n, j), d, 0 - j)
    ELSE NormD(n, BigShl(d, 0 - j), 0 - j)

Normalize(n, d) == NormalizeBy(n, d, BigBitLen(d) - BigBitLen(n))

\* One step of binary long division by d: the next quotient bit, r2 being
\* the remainder doubled.
DivStepWith(s, d, r2) ==
    IF BigGeq(r2, d) THEN [q |-> BigInc(BigDbl(s.q)), r |-> BigSub(r2, d)]
    ELSE [q |-> BigDbl(s.q), r |-> r2]

DivStep(s, d) == DivStepWith(s, d, BigDbl(s.r))

\* Long division until the quotient has 54 bits (53 and a rounding bit).
RECURSIVE LongDiv(_, _)
LongDiv(s, d) ==
    IF s.q[3] >= TopLimb53 THEN s ELSE LongDiv(DivStep(s, d), d)

RoundQuotient(t, e) == RoundToDouble(t.q, e, ~BigIsZero(t.r))

DivNormalized(z, e0) ==
    RoundQuotient(LongDiv([q |-> Big(1), r |-> BigSub(z.n, z.d)], z.d),
                  e0 + z.k - 53)

\* The double nearest to (n / d) * 2^e0: a correctly rounded division.
BigFDiv(n, d, e0) == DivNormalized(Normalize(n, d), e0)

\* Python: a / b for ints a, b >= 1 (line 60).
FDivInt(a, b) == BigFDiv(Big(a), Big(b), 0)

\* Python: c * x for an int 1 <= c < 128 and a float x (lines 63, 71).
FMulInt(c, x) == RoundToDouble(BigMulSmall(x.m, c), x.e, FALSE)

\* Python: c / x for an int c >= 1 and a float x (line 67).
FDivBy(c, x) == BigFDiv(Big(c), x.m, 0 - x.e)

\* n + g/2 + (s: something below), rounded half to even.
HalfEven(n, g, s) == IF g /\ (s \/ n % 2 = 1) THEN n + 1 ELSE n

RoundShifted(m, k) ==
    HalfEven(BigToInt(BigShr(m, k)), BigBit(m, k - 1), ~BigLowZero(m, k - 1))

\* Python: int(round(x)) for a float 0 < x < 2^31: round half to even.
PyRound(x) == RoundShifted(x.m, 0 - x.e)

(***************************************************************************)
(* calc_watermark_size, lines 58-73.  hfloor and wfloor record which of    *)
(* the two corrections ran.                                                *)
(***************************************************************************)
\* Lines 69-73: the width floor, and the return.
width_floor(ratio, new_w, new_h, hfloor) ==
    IF new_w < WM_MIN_W
    THEN [new_w |-> WM_MIN_W, new_h |-> PyRound(FMulInt(WM_MIN_W, ratio)),
          hfloor |-> hfloor, wfloor |-> TRUE]
    ELSE [new_w |-> new_w, new_h |-> new_h, hfloor |-> hfloor, wfloor |-> FALSE]

\* Lines 65-67: the height floor.
height_floor(ratio, new_w, new_h) ==
    IF new_h < WM_MIN_H
    THEN width_floor(ratio, PyRound(FDivBy(WM_MIN_H, ratio)), WM_MIN_H, TRUE)
    ELSE width_floor(ratio, new_w, new_h, FALSE)

\* Lines 65-67 multiplying by the ratio where they should divide.
height_floor_multiplies(ratio, new_w, new_h) ==
    IF new_h < WM_MIN_H
    THEN width_floor(ratio, PyRound(FMulInt(WM_MIN_H, ratio)), WM_MIN_H, TRUE)
    ELSE width_floor(ratio, new_w, new_h, FALSE)

\* Lines 62-63: the width-first size.
width_first(ratio) ==
    height_floor(ratio, WM_MAX_W, PyRound(FMulInt(WM_MAX_W, ratio)))

\* Variants of calc_watermark_size with a slip in them, against which the
\* properties below are tried: the height floor left out, and the height
\* floor multiplying instead of dividing.
calc_without_height_floor(ow, oh) ==
    width_floor(FDivInt(oh, ow), WM_MAX_W,
                PyRound(FMulInt(WM_MAX_W, FDivInt(oh, ow))), FALSE)

calc_floor_multiplies(ow, oh) ==
    height_floor_multiplies(FDivInt(oh, ow), WM_MAX_W,
                            PyRound(FMulInt(WM_MAX_W, FDivInt(oh, ow))))

\* Line 60 and on.
calc_watermark_size(ow, oh) == width_first(FDivInt(oh, ow))

None == [none |-> TRUE]

\* A directory with no file in it.
EmptyDir == [n \in {} |-> None]

\* The variables a development leaves alone, at rest.
SizeIdle ==
    /\ orig_w = 0 /\ orig_h = 0 /\ sized = None /\ wm_size = None

PasteIdle ==
    /\ page_img = None /\ wm_img = None /\ out_img = None

MainIdle ==
    /\ pc = "idle" /\ args = None /\ src = 0 /\ tmp_exists = FALSE
    /\ staging = EmptyDir /\ outside = EmptyDir /\ pages = <<>> /\ watermark = None
    /\ result_images = <<>> /\ built = None /\ exit_code = -1
    /\ failed_at = "" /\ rerun = FALSE /\ prev_built = None

(***************************************************************************)
(* The sizing development: prepare_watermark on a logo of any size.        *)
(***************************************************************************)
\* Logo sizes of the worked examples: square, extremely wide, extremely tall.
ExampleLogos == {<<200, 200>>, <<1000, 50>>, <<50, 1000>>}

LogoSizes == ((1..MaxLogoW) \X (1..MaxLogoH)) \cup ExampleLogos

InitSize ==
    /\ phase = "logo"
    /\ \E sz \in LogoSizes : orig_w = sz[1] /\ orig_h = sz[2]
    /\ sized = None /\ wm_size = None
    /\ PasteIdle /\ MainIdle

\* logo.resize((new_h, new_w)): the two dimensions swapped.
resized_swapped(r) == <<r.new_h, r.new_w>>

\* logo.resize((new_w, new_h), ...), line 95: the size of the resized logo.
resized(r) == <<r.new_w, r.new_h>>

\* prepare_watermark, lines 93-95: size the logo and resize it to that size.
PrepareSize ==
    /\ phase = "logo"
    /\ sized' = calc_watermark_size(orig_w, orig_h)
    /\ wm_size' = resized(sized')
    /\ phase' = "prepared"
    /\ UNCHANGED <<orig_w, orig_h, pasteVars, mainVars>>

NextSize == PrepareSize

SpecSize == InitSize /\ [][NextSize]_vars

(***************************************************************************)
(* The compositing development: apply_watermark on one page raster.        *)
(* A raster is [w, h, px] with px[<<x, y>>] the pixel in column x, row y,  *)
(* counted from the top-left corner: <<r, g, b>> for a page and            *)
(* <<r, g, b, a>> for the watermark.                                       *)
(***************************************************************************)
Coords(w, h) == (0..(w - 1)) \X (0..(h - 1))

Palette == << <<255, 255, 255>>, <<0, 0, 0>>, <<200, 30, 30>>, <<12, 90, 250>> >>
Alphas  == << 255, 0, 128 >>

\* The rasters the development starts from: every size within the bounds,
\* pixels laid out in a pattern shifted by a seed.
PageRaster(w, h, seed) ==
    [w |-> w, h |-> h,
     px |-> [c \in Coords(w, h) |->
                Palette[((c[1] + 2 * c[2] + seed) % Len(Palette)) + 1]]]

WmRaster(w, h, seed) ==
    [w |-> w, h |-> h,
     px |-> [c \in Coords(w, h) |->
                Palette[((2 * c[1] + c[2] + seed + 1) % Len(Palette)) + 1]
                \o << Alphas[((c[1] + c[2] + seed) % Len(Alphas)) + 1] >>]]

\* Pillow's 8-bit blend of in1 (below) and in2 (above) under a mask value:
\* (in1 * (255 - mask) + in2 * mask) / 255, rounded.
Blend8(mask, in1, in2) ==
    LET t == in1 * (255 - mask) + in2 * mask + 128
    IN  ((t \div 256) + t) \div 256

\* Image.paste(im, (x, y), mask) with im as its own mask, line 112: inside
\* the box, clipped to the page, each channel is blended under im's alpha.
Paste(page, im, x, y) ==
    [w |-> page.w, h |-> page.h,
     px |-> [c \in Coords(page.w, page.h) |->
        IF /\ x <= c[1] /\ c[1] < x + im.w
           /\ y <= c[2] /\ c[2] < y + im.h
        THEN LET p == im.px[<<c[1] - x, c[2] - y>>]
             IN  << Blend8(p[4], page.px[c][1], p[1]),
                    Blend8(p[4], page.px[c][2], p[2]),
                    Blend8(p[4], page.px[c][3], p[3]) >>
        ELSE page.px[c]]]

\* The watermark pasted at the top-left corner instead.
apply_watermark_at_origin(page, wm) == Paste(page, wm, 0, 0)

\* apply_watermark, lines 104-113.
apply_watermark(page, wm) ==
    LET x == page.w - wm.w - WM_MARGIN
        y == page.h - wm.h - WM_MARGIN
    IN  Paste(page, wm, x, y)

InitPaste ==
    /\ phase = "page"
    /\ \E w \in 1..MaxPageDim, h \in 1..MaxPageDim, seed \in 0..MaxSeed :
          page_img = PageRaster(w, h, seed)
    /\ \E w \in 1..MaxWmDim, h \in 1..MaxWmDim, seed \in 0..MaxSeed :
          wm_img = WmRaster(w, h, seed)
    /\ out_img = None
    /\ SizeIdle /\ MainIdle

ApplyWatermark ==
    /\ phase = "page"
    /\ out_img' = apply_watermark(page_img, wm_img)
    /\ phase' = "pasted"
    /\ UNCHANGED <<page_img, wm_img, sizeVars, mainVars>>

NextPaste == ApplyWatermark

SpecPaste == InitPaste /\ [][NextPaste]_vars

(***************************************************************************)
(* Runs of main.  The command line, the files the tool reads and the       *)
(* files it writes.                                                        *)
(***************************************************************************)
\* A str is the sequence of its code points.  Ord gives the code point of
\* the characters the command lines below are written with: the digits run
\* from 48, the small letters from 97.
AsciiDigits == << "0", "1", "2", "3", "4", "5", "6", "7", "8", "9" >>

AsciiLower ==
    << "a", "b", "c", "d", "e", "f", "g", "h", "i", "j", "k", "l", "m",
       "n", "o", "p", "q", "r", "s", "t", "u", "v", "w", "x", "y", "z" >>

Ord(c) ==
    CASE c = " " -> 32
      [] c = "+" -> 43
      [] c = "-" -> 45
      [] c = "_" -> 95
      [] \E i \in 1..10 : AsciiDigits[i] = c ->
             47 + CHOOSE i \in 1..10 : AsciiDigits[i] = c
      [] OTHER -> 96 + CHOOSE i \in 1..26 : AsciiLower[i] = c

Str(cs) == [i \in 1..Len(cs) |-> Ord(cs[i])]

Lossless == Str(<<"l", "o", "s", "s", "l", "e", "s", "s">>)

\* sys.get_int_max_str_digits(): int() raises ValueError on a string of more
\* decimal digits than this.
MaxStrDigits == 4300

\* Values given to --quality, --logo and --output.  Among the values of
\* --quality: 50 after a vertical tab (11), before one, after a no-break
\* space (160), in Arabic-Indic digits (1632..1641), 10 in fullwidth digits
\* (65296..65305); a five after the unit separator (31), the superscript
\* two (178).
QualityArgs ==
    { Lossless, Str(<<"1", "0", "0">>), Str(<<"0">>), Str(<<"1", "0", "1">>),
      Str(<<"-", "5">>), Str(<<"a", "b", "c">>), Str(<<"1", "_", "0">>),
      Str(<<" ", "5", "0">>), Str(<<"5", "0", " ">>), <<43, 48, 55, 10>>,
      Str(<<"1", "_", "_", "0">>), Str(<<"-", " ", "5">>), Str(<<"5", "_">>),
      <<>>, <<11, 53, 48>>, <<53, 48, 11>>, <<160, 53, 48>>, <<1637, 1632>>,
      <<65297, 65296>>, <<31, 53>>, <<178>> }

LogoArgs == { "sources/logo_colosal.png", "sources/example1.pdf", "missing.png" }

OutputArgs ==
    { [dir |-> ".", name |-> "output_watermarked.pdf"],
      [dir |-> TMP_DIR, name |-> "final.pdf"] }

\* os.path.isfile(path) and whether Image.open(path) can decode the file.
IsFile(path) == path \in { "sources/logo_colosal.png", "sources/example1.pdf" }

DecodesAsImage(path) == path = "sources/logo_colosal.png"

\* int(s), line 154, for a str s in base 10: white space around the number
\* is dropped, then comes an optional sign, then decimal digits in which
\* single underscores may stand between two digits; anything else, and more
\* than MaxStrDigits digits, raises ValueError (ok = FALSE).
\* White space is what str.isspace() takes among the characters outside
\* ASCII and the six characters of isspace() in C within it; a decimal digit
\* is any character with a Unicode decimal value: they come in runs of ten
\* from a zero on (the Unicode 14 tables of Python 3.11).
WhitespaceChars ==
    {9, 10, 11, 12, 13, 32, 133, 160, 5760} \cup (8192..8202)
        \cup {8232, 8233, 8239, 8287, 12288}

DigitZeros ==
    { 48, 1632, 1776, 1984, 2406, 2534, 2662, 2790, 2918, 3046, 3174,
      3302, 3430, 3558, 3664, 3792, 3872, 4160, 4240, 6112, 6160,
      6470, 6608, 6784, 6800, 6992, 7088, 7232, 7248, 42528, 43216,
      43264, 43472, 43504, 43600, 44016, 65296, 66720, 68912, 69734,
      69872, 69942, 70096, 70384, 70736, 70864, 71248, 71360, 71472,
      71904, 72016, 72784, 73040, 73120, 92768, 92864, 93008, 120782,
      120792, 120802, 120812, 120822, 123200, 123632, 125264, 130032 }

IsDigit(c) == \E z \in DigitZeros : z <= c /\ c <= z + 9

DigitVal(c) == c - (CHOOSE z \in DigitZeros : z <= c /\ c <= z + 9)

\* The number a sequence of digit values writes, most significant first.
RECURSIVE DigitsVal(_)
DigitsVal(d) ==
    IF d = <<>> THEN 0
    ELSE 10 * DigitsVal(SubSeq(d, 1, Len(d) - 1)) + d[Len(d)]

\* s from its first character that is not white space on, and s up to its
\* last character that is not white space.
LStrip(s) ==
    IF \A i \in 1..Len(s) : s[i] \in WhitespaceChars THEN <<>>
    ELSE SubSeq(s, CHOOSE i \in 1..Len(s) :
                      /\ s[i] \notin WhitespaceChars
                      /\ \A k \in 1..(i - 1) : s[k] \in WhitespaceChars,
                Len(s))

RStrip(s) ==
    IF \A i \in 1..Len(s) : s[i] \in WhitespaceChars THEN <<>>
    ELSE SubSeq(s, 1, CHOOSE i \in 1..Len(s) :
                         /\ s[i] \notin WhitespaceChars
                         /\ \A k \in (i + 1)..Len(s) : s[k] \in WhitespaceChars)

\* Digits, and underscores (95) that each stand between two digits.
GroupedDigits(b) ==
    /\ b # <<>>
    /\ \A i \in 1..Len(b) :
          \/ IsDigit(b[i])
          \/ /\ b[i] = 95 /\ 1 < i /\ i < Len(b)
             /\ IsDigit(b[i - 1]) /\ IsDigit(b[i + 1])

\* A Python int, which has no largest value: its sign and the decimal digits
\* of its magnitude, most significant first, none for zero.
Magnitude(d) ==
    IF \A i \in 1..Len(d) : d[i] = 0 THEN <<>>
    ELSE SubSeq(d, CHOOSE i \in 1..Len(d) :
                      d[i] # 0 /\ \A k \in 1..(i - 1) : d[k] = 0,
                Len(d))

PyIntValue(minus, mag) == [neg |-> minus /\ mag # <<>>, mag |-> mag]

PyIntDigits(t, digits) ==
    IF Len(digits) > MaxStrDigits
    THEN [ok |-> FALSE, val |-> PyIntValue(FALSE, <<>>)]
    ELSE [ok  |-> TRUE,
          val |-> PyIntValue(t[1] = 45,
                             Magnitude([i \in 1..Len(digits) |-> DigitVal(digits[i])]))]

PyIntOf(t, body) ==
    IF GroupedDigits(body) THEN PyIntDigits(t, SelectSeq(body, IsDigit))
    ELSE [ok |-> FALSE, val |-> PyIntValue(FALSE, <<>>)]

\* The sign is a plus (43) or a minus (45).
PyIntStripped(t) ==
    PyIntOf(t, IF t # <<>> /\ t[1] \in {43, 45} THEN Tail(t) ELSE t)

PyInt(s) == PyIntStripped(RStrip(LStrip(s)))

\* 1 <= q <= 100, line 155.
InRange(q) ==
    ~q.neg /\ Len(q.mag) <= 3 /\ 1 <= DigitsVal(q.mag) /\ DigitsVal(q.mag) <= 100

\* int(quality) of a value that passed the check, line 131.
JpegQuality(quality) == DigitsVal(PyInt(quality).val.mag)

\* The range test left out of the --quality check.
quality_ok_any_int(q) == q = Lossless \/ PyInt(q).ok

\* main, lines 152-159: the --quality check passes.
quality_ok(q) == q = Lossless \/ (PyInt(q).ok /\ InRange(PyInt(q).val))

\* Decimal digits of n >= 0, and s padded with zeros on the left to a width.
RECURSIVE Dec(_)
Dec(n) == IF n < 10 THEN <<n>> ELSE Dec(n \div 10) \o <<n % 10>>

RECURSIVE PadTo(_, _)
PadTo(s, width) == IF Len(s) >= width THEN s ELSE PadTo(<<0>> \o s, width)

\* File names in TMP_DIR: page-<num>.png as pdftoppm writes them (the number
\* padded to the width of the page count), wm_<num>.<ext> as build_pdf does.
PageName(i, n) == [kind |-> "page", num |-> PadTo(Dec(i), Len(Dec(n))), ext |-> "png"]

WmName(i, ext) == [kind |-> "wm", num |-> PadTo(Dec(i), 3), ext |-> ext]

OutName(name) == [kind |-> name, num |-> <<>>, ext |-> "pdf"]

\* The raster of page i of the source PDF that has n pages.
Page(n, i) == [doc |-> n, idx |-> i]

\* dir with content written to the file name, created or overwritten.
WriteFile(dir, name, content) ==
    [n \in DOMAIN dir \cup {name} |-> IF n = name THEN content ELSE dir[n]]

\* Order of two strings of digits followed by ".png": character by
\* character, and "." sorts before every digit.
RECURSIVE LexLess(_, _)
LexLess(a, b) ==
    IF a = <<>> THEN b # <<>>
    ELSE IF b = <<>> THEN FALSE
    ELSE IF a[1] = b[1] THEN LexLess(Tail(a), Tail(b))
    ELSE a[1] < b[1]

RECURSIVE SortNames(_)
SortNames(S) ==
    IF S = {} THEN <<>>
    ELSE LET m == CHOOSE x \in S : \A y \in S : x = y \/ LexLess(x.num, y.num)
         IN  <<m>> \o SortNames(S \ {m})

\* sorted(Path(tmp_dir).glob("page-*.png")), line 85.
GlobPages(dir) ==
    SortNames({ n \in DOMAIN dir : n.kind = "page" /\ n.ext = "png" })

\* pdftoppm, lines 80-84: the first k pages of the n-page PDF written.
Rasterized(dir, n, k) ==
    [f \in DOMAIN dir \cup { PageName(i, n) : i \in 1..k } |->
        IF \E i \in 1..k : f = PageName(i, n)
        THEN Page(n, CHOOSE i \in 1..k : f = PageName(i, n))
        ELSE dir[f]]

\* The page raster with the prepared watermark blended on it (apply_watermark).
Composited(page, wm) == [page |-> page, wm |-> wm.logo]

\* img.save(p, ...), lines 128-131: PNG keeps the pixels, JPEG does not.
Encoded(img, quality) ==
    IF quality = Lossless THEN [img |-> img, codec |-> "png", q |-> 0]
    ELSE [img |-> img, codec |-> "jpg", q |-> JpegQuality(quality)]

Ext(quality) == IF quality = Lossless THEN "png" ELSE "jpg"

\* The loop of build_pdf, lines 126-132: one wm_ file per image.
WithWmFiles(dir, images, quality) ==
    [f \in DOMAIN dir \cup { WmName(i - 1, Ext(quality)) : i \in 1..Len(images) } |->
        IF \E i \in 1..Len(images) : f = WmName(i - 1, Ext(quality))
        THEN Encoded(images[CHOOSE i \in 1..Len(images) :
                                f = WmName(i - 1, Ext(quality))], quality)
        ELSE dir[f]]

\* img2pdf.convert(img_paths, ...), line 136: the pages of the PDF are the
\* files at img_paths, in order.
ConvertToPdf(dir, n, quality) ==
    [pages |-> [i \in 1..n |-> dir[WmName(i - 1, Ext(quality))]]]

\* The end of main, lines 182-183, leaving the wm_ files behind.
unlinked_pages_only(dir) ==
    [f \in { n \in DOMAIN dir : n.kind # "page" } |-> dir[f]]

\* The end of main, lines 182-183: every file of TMP_DIR is unlinked.
unlinked(dir) == EmptyDir

\* The file at an --output path, None when there is none.
FileAt(path) ==
    IF path.dir = TMP_DIR
    THEN IF tmp_exists /\ OutName(path.name) \in DOMAIN staging
         THEN staging[OutName(path.name)] ELSE None
    ELSE IF OutName(path.name) \in DOMAIN outside
         THEN outside[OutName(path.name)] ELSE None

Init ==
    /\ phase = "main"
    /\ SizeIdle /\ PasteIdle /\ MainIdle

otherVars == <<phase, sizeVars, pasteVars>>

\* sys.exit(1), or an exception that ends the interpreter: status 1.
Abort(where) ==
    /\ pc' = "failed"
    /\ exit_code' = 1
    /\ failed_at' = where

\* A run starts: parse_args, lines 144-146.  The PDF at PDF_INPUT is
\* whatever the user has put there since the last run.
NewRun ==
    /\ pc = "idle"
    /\ \E l \in LogoArgs, q \in QualityArgs, o \in OutputArgs :
          args' = [logo |-> l, quality |-> q, output |-> o]
    /\ \E n \in 0..MaxPages : src' = n
    /\ pc' = "check_logo"
    /\ pages' = <<>> /\ watermark' = None /\ result_images' = <<>>
    /\ built' = None /\ exit_code' = -1 /\ failed_at' = ""
    /\ rerun' = FALSE /\ prev_built' = None
    /\ UNCHANGED <<tmp_exists, staging, outside, otherVars>>

\* The same command run again on the same PDF, right after a run that
\* succeeded.
Rerun ==
    /\ pc = "done"
    /\ pc' = "check_logo"
    /\ pages' = <<>> /\ watermark' = None /\ result_images' = <<>>
    /\ built' = None /\ exit_code' = -1 /\ failed_at' = ""
    /\ rerun' = TRUE /\ prev_built' = built
    /\ UNCHANGED <<args, src, tmp_exists, staging, outside, otherVars>>

\* The interpreter has exited, with status 0 or 1: what the run held in
\* memory is gone, the files stay.
Exit ==
    /\ pc \in {"done", "failed"}
    /\ pc' = "idle" /\ args' = None /\ src' = 0
    /\ pages' = <<>> /\ watermark' = None /\ result_images' = <<>>
    /\ built' = None /\ exit_code' = -1 /\ failed_at' = ""
    /\ rerun' = FALSE /\ prev_built' = None
    /\ UNCHANGED <<tmp_exists, staging, outside, otherVars>>

\* main, lines 148-150.
CheckLogo ==
    /\ pc = "check_logo"
    /\ IF IsFile(args.logo)
       THEN pc' = "check_quality" /\ UNCHANGED <<exit_code, failed_at>>
       ELSE Abort("main")
    /\ UNCHANGED <<args, src, tmp_exists, staging, outside, pages, watermark,
                   result_images, built, rerun, prev_built, otherVars>>

\* main, lines 152-159.
CheckQuality ==
    /\ pc = "check_quality"
    /\ IF quality_ok(args.quality)
       THEN pc' = "extract" /\ UNCHANGED <<exit_code, failed_at>>
       ELSE Abort("main")
    /\ UNCHANGED <<args, src, tmp_exists, staging, outside, pages, watermark,
                   result_images, built, rerun, prev_built, otherVars>>

\* extract_pages, lines 76-87, when pdftoppm exits with status 0.
ExtractPages ==
    /\ pc = "extract"
    /\ tmp_exists' = TRUE
    /\ staging' = Rasterized(staging, src, src)
    /\ pages' = GlobPages(staging')
    /\ pc' = "prepare"
    /\ UNCHANGED <<args, src, outside, watermark, result_images, built,
                   exit_code, failed_at, rerun, prev_built, otherVars>>

\* extract_pages, lines 78-84, when pdftoppm is missing or exits non-zero
\* after writing k pages: subprocess.run(check=True) raises.
ExtractPagesFails ==
    /\ pc = "extract"
    /\ tmp_exists' = TRUE
    /\ \E k \in 0..src :
          /\ (k < src \/ src = 0)
          /\ staging' = Rasterized(staging, src, k)
    /\ Abort("extract_pages")
    /\ UNCHANGED <<args, src, outside, pages, watermark, result_images, built,
                   rerun, prev_built, otherVars>>

\* prepare_watermark, lines 90-101, called at line 170.
PrepareWatermark ==
    /\ pc = "prepare"
    /\ IF DecodesAsImage(args.logo)
       THEN /\ watermark' = [logo |-> args.logo]
            /\ pc' = "apply"
            /\ UNCHANGED <<exit_code, failed_at>>
       ELSE /\ Abort("prepare_watermark")
            /\ UNCHANGED watermark
    /\ UNCHANGED <<args, src, tmp_exists, staging, outside, pages,
                   result_images, built, rerun, prev_built, otherVars>>

\* The loop of main, lines 173-177: each file of pages opened and composited.
ApplyWatermarks ==
    /\ pc = "apply"
    /\ result_images' =
          [i \in 1..Len(pages) |-> Composited(staging[pages[i]], watermark)]
    /\ pc' = "build"
    /\ UNCHANGED <<args, src, tmp_exists, staging, outside, pages, watermark,
                   built, exit_code, failed_at, rerun, prev_built, otherVars>>

\* build_pdf, lines 116-140, called at line 180.
BuildPdf ==
    /\ pc = "build"
    /\ IF result_images = <<>>
       THEN /\ Abort("build_pdf")
            /\ UNCHANGED <<staging, outside, built>>
       ELSE LET dir == WithWmFiles(staging, result_images, args.quality)
                pdf == ConvertToPdf(dir, Len(result_images), args.quality)
            IN  /\ built' = pdf
                /\ IF args.output.dir = TMP_DIR
                   THEN /\ staging' = WriteFile(dir, OutName(args.output.name), pdf)
                        /\ UNCHANGED outside
                   ELSE /\ staging' = dir
                        /\ outside' = WriteFile(outside, OutName(args.output.name), pdf)
                /\ pc' = "cleanup"
                /\ UNCHANGED <<exit_code, failed_at>>
    /\ UNCHANGED <<args, src, tmp_exists, pages, watermark, result_images,
                   rerun, prev_built, otherVars>>

\* The end of main, lines 182-185.
Cleanup ==
    /\ pc = "cleanup"
    /\ staging' = unlinked(staging)
    /\ tmp_exists' = FALSE
    /\ pc' = "done"
    /\ exit_code' = 0
    /\ UNCHANGED <<args, src, outside, pages, watermark, result_images, built,
                   failed_at, rerun, prev_built, otherVars>>

Next ==
    \/ NewRun
    \/ Rerun
    \/ CheckLogo
    \/ CheckQuality
    \/ ExtractPages
    \/ ExtractPagesFails
    \/ PrepareWatermark
    \/ ApplyWatermarks
    \/ BuildPdf
    \/ Cleanup
    \/ Exit

Spec == Init /\ [][Next]_vars

(***************************************************************************)
(* Properties of the sizing development.                                   *)
(***************************************************************************)
Abs(x) == IF x < 0 THEN 0 - x ELSE x

\* round(n / d) of the exact quotient of two positive integers, halves to the
\* even neighbour: Python's round(n / d).
RoundHalfEven(n, d) ==
    LET q == n \div d
        r == n % d
    IN  IF 2 * r > d \/ (2 * r = d /\ q % 2 = 1) THEN q + 1 ELSE q

\* C2: for every logo size, calc_watermark_size returns a height of at least
\* WM_MIN_H (21) and a width of at least WM_MIN_W (107), and a width of at
\* most WM_MAX_W (120) whenever the min-height correction was not applied:
\* whenever its branch was not taken, and whenever
\* round(120 * orig_h / orig_w) is not below 21.
C2_SizeBounds ==
    phase = "prepared" =>
        /\ sized.new_h >= WM_MIN_H
        /\ sized.new_w >= WM_MIN_W
        /\ (~sized.hfloor => sized.new_w <= WM_MAX_W)
        /\ (RoundHalfEven(WM_MAX_W * orig_h, orig_w) >= WM_MIN_H =>
               sized.new_w <= WM_MAX_W)

\* C2 witness: a logo wide enough for the min-height correction, and sized.
C2_Witness ==
    phase = "prepared" /\ sized.hfloor /\ sized.new_w > WM_MAX_W

\* C3 as stated: the prepared watermark satisfies width >= 107, height >= 21
\* and width <= 120 all at once, for every logo size.
C3_AllThreeBounds ==
    phase = "prepared" =>
        /\ wm_size[1] >= WM_MIN_W
        /\ wm_size[2] >= WM_MIN_H
        /\ wm_size[1] <= WM_MAX_W

\* C3 amended: the prepared watermark has width >= 107 and height >= 21, and
\* its width exceeds WM_MAX_W (120) only when its height is exactly WM_MIN_H.
C3_Amended ==
    phase = "prepared" =>
        /\ wm_size[1] >= WM_MIN_W
        /\ wm_size[2] >= WM_MIN_H
        /\ (wm_size[1] > WM_MAX_W => wm_size[2] = WM_MIN_H)

\* C3 witness: a prepared watermark wider than WM_MAX_W.
C3_Witness ==
    phase = "prepared" /\ wm_size[1] > WM_MAX_W /\ wm_size[2] = WM_MIN_H

\* C10 as stated: the width-floor branch is never taken, and the result is
\* always (120, round(120 * orig_h / orig_w)) or (round(21 * orig_w / orig_h), 21).
C10_ExactRounding ==
    phase = "prepared" =>
        /\ ~sized.wfloor
        /\ \/ wm_size = <<WM_MAX_W, RoundHalfEven(WM_MAX_W * orig_h, orig_w)>>
           \/ wm_size = <<RoundHalfEven(WM_MIN_H * orig_w, orig_h), WM_MIN_H>>

\* C10 amended: the width-floor branch is never taken, and the result is
\* always (120, h) with h an integer nearest to 120 * orig_h / orig_w when the
\* height floor did not fire, or (w, 21) with w an integer nearest to
\* 21 * orig_w / orig_h and above 107 when it did; at an exact half either
\* neighbour can come out.
C10_Amended ==
    phase = "prepared" =>
        /\ ~sized.wfloor
        /\ \/ /\ ~sized.hfloor
              /\ sized.new_w = WM_MAX_W
              /\ 2 * Abs(sized.new_h * orig_w - WM_MAX_W * orig_h) <= orig_w
           \/ /\ sized.hfloor
              /\ sized.new_h = WM_MIN_H
              /\ sized.new_w > WM_MIN_W
              /\ 2 * Abs(sized.new_w * orig_h - WM_MIN_H * orig_w) <= orig_h

\* C10 witness: a size that is not the even-rounded exact quotient.
C10_Witness ==
    /\ phase = "prepared" /\ ~sized.hfloor
    /\ sized.new_h # RoundHalfEven(WM_MAX_W * orig_h, orig_w)

(***************************************************************************)
(* Properties of the compositing development.                              *)
(***************************************************************************)
\* The rectangle of the page flush with its bottom-right corner that has the
\* watermark's size.
InFootprint(c) ==
    /\ page_img.w - wm_img.w <= c[1] /\ c[1] < page_img.w
    /\ page_img.h - wm_img.h <= c[2] /\ c[2] < page_img.h

WmPixelAt(c) ==
    wm_img.px[<<c[1] - (page_img.w - wm_img.w), c[2] - (page_img.h - wm_img.h)>>]

\* C9: for a watermark no larger than the page, apply_watermark returns a
\* raster of the page's size; outside the rectangle with top-left corner
\* (page_width - wm_width, page_height - wm_height) every pixel is the page's,
\* inside it a pixel is the page's where the watermark's alpha is 0 and the
\* watermark's where the alpha is 255.
C9_Composite ==
    (phase = "pasted" /\ wm_img.w <= page_img.w /\ wm_img.h <= page_img.h) =>
        /\ out_img.w = page_img.w /\ out_img.h = page_img.h
        /\ DOMAIN out_img.px = Coords(page_img.w, page_img.h)
        /\ \A c \in Coords(page_img.w, page_img.h) :
              IF ~InFootprint(c) THEN out_img.px[c] = page_img.px[c]
              ELSE /\ WmPixelAt(c)[4] = 0 => out_img.px[c] = page_img.px[c]
                   /\ WmPixelAt(c)[4] = 255 =>
                         out_img.px[c] = SubSeq(WmPixelAt(c), 1, 3)

\* C9 witness: a watermark smaller than the page has been pasted, with an
\* opaque and a transparent pixel that differ from the page under them.
C9_Witness ==
    /\ phase = "pasted"
    /\ wm_img.w < page_img.w /\ wm_img.h < page_img.h
    /\ \E c \in Coords(page_img.w, page_img.h) :
          /\ InFootprint(c) /\ WmPixelAt(c)[4] = 255
          /\ out_img.px[c] # page_img.px[c]
    /\ \E c \in Coords(page_img.w, page_img.h) :
          /\ InFootprint(c) /\ WmPixelAt(c)[4] = 0
          /\ SubSeq(WmPixelAt(c), 1, 3) # page_img.px[c]

(***************************************************************************)
(* Properties of the runs of main.                                         *)
(***************************************************************************)
\* The numerals of the integers 1 to 100, as digit values.
QualityNumerals == { Dec(n) : n \in 1..100 }

\* What is left of q without the blanks at its two ends.
Trimmed(q) ==
    IF \A i \in 1..Len(q) : q[i] \in WhitespaceChars THEN <<>>
    ELSE SubSeq(q, CHOOSE i \in 1..Len(q) :
                      /\ q[i] \notin WhitespaceChars
                      /\ \A k \in 1..(i - 1) : q[k] \in WhitespaceChars,
                   CHOOSE i \in 1..Len(q) :
                      /\ q[i] \notin WhitespaceChars
                      /\ \A k \in (i + 1)..Len(q) : q[k] \in WhitespaceChars)

Unsigned(t) == IF t # <<>> /\ t[1] = 43 THEN Tail(t) ELSE t

\* b is made of digits and of underscores that each separate two digits.
WellGrouped(b) ==
    \A i \in 1..Len(b) :
        IF b[i] = 95
        THEN 1 < i /\ i < Len(b) /\ IsDigit(b[i - 1]) /\ IsDigit(b[i + 1])
        ELSE IsDigit(b[i])

\* The values of the digits from the first that is not a zero on.
Significant(d) ==
    IF \A i \in 1..Len(d) : DigitVal(d[i]) = 0 THEN <<>>
    ELSE LET first == CHOOSE i \in 1..Len(d) :
                         /\ DigitVal(d[i]) # 0
                         /\ \A k \in 1..(i - 1) : DigitVal(d[k]) = 0
         IN  [i \in 1..(Len(d) - first + 1) |-> DigitVal(d[first + i - 1])]

IntegerInRange(b) ==
    WellGrouped(b) /\ Significant(SelectSeq(b, IsDigit)) \in QualityNumerals

\* The --quality values that are the token lossless or write an integer in
\* [1,100]: its numeral in decimal digits of any script, to which integer
\* notation allows a plus sign, leading zeros and underscores between
\* digits, with blanks around it.
ValidQualityToken(q) == q = Lossless \/ IntegerInRange(Unsigned(Trimmed(q)))

BadArgs ==
    /\ args # None
    /\ ~ValidQualityToken(args.quality) \/ ~IsFile(args.logo)

\* The run went past extract_pages: pdftoppm exited with status 0.
Extracted ==
    \/ pc \in {"prepare", "apply", "build", "cleanup", "done"}
    \/ pc = "failed" /\ failed_at \in {"prepare_watermark", "build_pdf"}

WmFiles == { n \in DOMAIN staging : n.kind = "wm" }

\* C1: a run whose --quality is neither lossless nor an integer in [1,100],
\* or whose --logo is not an existing file, goes from the checks straight to
\* a non-zero exit: it never reaches extract_pages, TMP_DIR is neither
\* created nor modified, and no output PDF is written.
C1_ValidateBeforeWork ==
    [][ BadArgs =>
          /\ pc' \in {"check_logo", "check_quality", "failed", "idle"}
          /\ (pc' = "idle" => pc = "failed")
          /\ (pc = "check_quality" => pc' = "failed")
          /\ (pc = "check_logo" /\ ~IsFile(args.logo) => pc' = "failed")
          /\ (pc' = "failed" => exit_code' = 1)
          /\ UNCHANGED <<tmp_exists, staging, outside>>
          /\ built' = None ]_vars

\* C1 witness: a run with an out-of-range --quality has exited, with files
\* of an earlier run still in TMP_DIR.
C1_Witness ==
    /\ pc = "failed" /\ failed_at = "main" /\ IsFile(args.logo)
    /\ ~ValidQualityToken(args.quality) /\ PyInt(args.quality).ok
    /\ DOMAIN staging # {}

\* C4: when rasterization yields zero page images (and the logo decodes, so
\* that the run gets to build_pdf), the run ends with a non-zero status
\* inside build_pdf: no output PDF is created or overwritten and no wm_ file
\* is written.
C4_EmptyPageSet ==
    (src = 0 /\ Extracted /\ DecodesAsImage(args.logo)) =>
        /\ pc \notin {"cleanup", "done"}
        /\ (pc = "failed" => failed_at = "build_pdf" /\ exit_code = 1)
        /\ built = None
        /\ WmFiles = {}

\* C5: whatever TMP_DIR held when the run started, the list extract_pages
\* returns holds exactly one path per page of the source PDF, in page order,
\* and the output PDF is built from one composited page per source page in
\* that order.
C5_OnePagePerSourcePage ==
    Extracted =>
        /\ pages = [i \in 1..src |-> PageName(i, src)]
        /\ pc \in {"prepare", "apply", "build"} =>
              \A i \in 1..Len(pages) : staging[pages[i]] = Page(src, i)
        /\ built # None =>
              built.pages = [i \in 1..src |->
                  Encoded(Composited(Page(src, i), watermark), args.quality)]

\* C6: the step that ends a successful run leaves TMP_DIR empty and removed,
\* and no other step of any run, aborted or not, removes TMP_DIR or a file
\* in it: a run that aborts leaves behind what was written.
C6_CleanupOnlyOnSuccess ==
    [][ /\ (pc' = "done" /\ pc # "done") =>
              (DOMAIN staging' = {} /\ ~tmp_exists' /\ exit_code' = 0)
        /\ pc' # "done" =>
              /\ DOMAIN staging \subseteq DOMAIN staging'
              /\ (tmp_exists => tmp_exists') ]_vars

\* C6 witness: a run aborted in prepare_watermark, the extracted pages left
\* in TMP_DIR.
C6_Witness ==
    /\ pc = "failed" /\ failed_at = "prepare_watermark"
    /\ tmp_exists /\ src > 0
    /\ \A i \in 1..src : PageName(i, src) \in DOMAIN staging

\* C7: for every --output, when a run ends with status 0 the PDF build_pdf
\* wrote is still at the destination path.
C7_OutputSurvives ==
    (pc = "done" /\ exit_code = 0) => (built # None /\ FileAt(args.output) = built)

\* C8: a run repeated with the same PDF, logo, --output and --quality
\* lossless writes the same pages as the run before it.
C8_Idempotent ==
    (pc = "done" /\ rerun /\ args.quality = Lossless) => built = prev_built

====
